---- MODULE Spec2Model ----
(***************************************************************************)
(* pyhaystack.util.operation.BaseHaystackOperation: one operation, the     *)
(* worker thread that completes it through _done, and consumer threads     *)
(* that wait on it, read its result, take futures from it and connect      *)
(* listeners to its done signal.                                           *)
(*                                                                         *)
(* Python objects live in a heap (a sequence; a reference is an index, 0   *)
(* is None), so that "the same object" and "a copy" are different things.  *)
(* Every statement of a method that reads or writes shared state is one    *)
(* step of the thread running it.                                          *)
(***************************************************************************)
EXTENDS Integers, Sequences, FiniteSets, TLC

\* Operations the consumer threads perform, all together.
MaxOps == 2
\* Calls of _done the worker makes under SpecRedone (Spec: exactly one).
MaxDoneCalls == 2

Consumers == {"c1", "c2"}
Producer == "worker"

\* ---------------------------------------------------------------- values
None == 0

\* The kinds of object a collaborator hands to _done:
\*   obj    a mutable object holding one nested mutable object
\*   atom   an immutable atomic value (int, str): copy and deepcopy return it
\*   nocopy an object whose type supports neither copy nor deepcopy
\*   exc    an AsynchronousException
ValueKinds == {"obj", "atom", "nocopy"}
Failures == {<<"MyError", "Whoopsie!">>, <<"RuntimeError", "Test error">>}
NoFailure == <<"", "">>

NotReadyError == <<"NotReadyError", "">>
CopyError == <<"copy.Error", "">>

Obj(kind, data, child, failure) ==
    [kind |-> kind, data |-> data, child |-> child, failure |-> failure]

\* AsynchronousException(): captures the active failure's kind and message.
AsynchronousException(failure) == Obj("exc", 0, None, failure)

\* What an attribute read or a call hands back: a reference, or an exception.
NoOutcome == [t |-> "none", ref |-> None, exc |-> NoFailure]
Return(ref) == [t |-> "value", ref |-> ref, exc |-> NoFailure]
Raise(exc) == [t |-> "raise", ref |-> None, exc |-> exc]

VARIABLES
    smKind,             \* which _state_machine the subclass supplied
    finished,           \* _state_machine.is_finished()
    _result_copy,       \* constructor argument result_copy
    _result_deepcopy,   \* constructor argument result_deepcopy
    _result,            \* self._result, a reference
    _done_evt,          \* self._done_evt.is_set()
    slots,              \* self.done_sig's connected slots, in order
    heap,               \* the objects
    pcP,                \* where the worker thread is
    doneCalls,          \* calls of _done so far
    doneArg,            \* the argument of the call of _done in progress
    emitQ,              \* emit's snapshot of the slots, those still to call
    fired,              \* emit's snapshot of the slots, those called
    cons,               \* the consumer threads
    nOps,               \* operations the consumers have begun
    futures,            \* the Future objects created by the future property
    listeners,          \* the callbacks consumers connected to done_sig
    session             \* the session that started the operation to log in

vars == <<smKind, finished, _result_copy, _result_deepcopy, _result, _done_evt,
          slots, heap, pcP, doneCalls, doneArg, emitQ, fired, cons, nOps, futures,
          listeners, session>>

\* ---------------------------------------------------------------- copy
IsExc(h, r) == r # None /\ h[r].kind = "exc"

\* copy.copy(x): [ok, ref, heap].
copy(h, r) ==
    IF r = None \/ h[r].kind = "atom" THEN [ok |-> TRUE, ref |-> r, heap |-> h]
    ELSE IF h[r].kind = "nocopy" THEN [ok |-> FALSE, ref |-> None, heap |-> h]
    ELSE [ok |-> TRUE, ref |-> Len(h) + 1, heap |-> Append(h, h[r])]

\* Faulty variant: deepcopy copies one level only.
deepcopy_one_level(h, r) == copy(h, r)

\* copy.deepcopy(x): the nested object is copied first, then the object.
deepcopy(h, r) ==
    IF r = None \/ h[r].kind = "atom" THEN [ok |-> TRUE, ref |-> r, heap |-> h]
    ELSE IF h[r].kind = "nocopy" THEN [ok |-> FALSE, ref |-> None, heap |-> h]
    ELSE IF h[r].child = None
         THEN [ok |-> TRUE, ref |-> Len(h) + 1, heap |-> Append(h, h[r])]
         ELSE LET h1 == Append(h, h[h[r].child])
                  c1 == Len(h1)
              IN  [ok |-> TRUE, ref |-> c1 + 1,
                   heap |-> Append(h1, [h[r] EXCEPT !.child = c1])]

\* ---------------------------------------------------------------- properties
\* BaseHaystackOperation.is_done
is_done == finished

\* Faulty variant: is_failed tests for a built-in exception class, which an
\* AsynchronousException is not.
is_failed_never == FALSE

\* Faulty variant: is_failed tests for any stored result.
is_failed_any_result == _result # None

\* BaseHaystackOperation.is_failed
is_failed == IsExc(heap, _result)

\* AsynchronousException.reraise(): raises the captured kind and message.
reraise(h, r) == Raise(h[r].failure)

\* Faulty variant: the two copy branches exchanged.
result_value_swapped ==
    IF ~_result_copy THEN [out |-> Return(_result), heap |-> heap]
    ELSE LET c == IF _result_deepcopy THEN copy(heap, _result)
                  ELSE deepcopy(heap, _result)
         IN  [out |-> IF c.ok THEN Return(c.ref) ELSE Raise(CopyError),
              heap |-> c.heap]

\* Faulty variant: when the copy fails result returns the stored object.
result_value_lenient ==
    IF ~_result_copy THEN [out |-> Return(_result), heap |-> heap]
    ELSE LET c == IF _result_deepcopy THEN deepcopy(heap, _result)
                  ELSE copy(heap, _result)
         IN  [out |-> IF c.ok THEN Return(c.ref) ELSE Return(_result),
              heap |-> c.heap]

\* The tail of the result property, after its two checks: [out, heap].
result_value ==
    IF ~_result_copy THEN [out |-> Return(_result), heap |-> heap]
    ELSE LET c == IF _result_deepcopy THEN deepcopy(heap, _result)
                  ELSE copy(heap, _result)
         IN  [out |-> IF c.ok THEN Return(c.ref) ELSE Raise(CopyError),
              heap |-> c.heap]

\* The result property evaluated in one piece (by the thread that alone
\* writes finished and _result): [out, heap].
result ==
    IF ~is_done THEN [out |-> Raise(NotReadyError), heap |-> heap]
    ELSE IF is_failed THEN [out |-> reraise(heap, _result), heap |-> heap]
    ELSE result_value

\* ---------------------------------------------------------------- futures
\* Future(): state, the value or exception set (out); and, kept beside it, how
\* often and by which thread it was set, what is_done was when the future
\* property made it (done), whether _on_done was connected for it before emit
\* took its list of slots (early).
NewFuture(done) == [state |-> "pending", out |-> NoOutcome, sets |-> 0,
                    by |-> "", done |-> done, early |-> FALSE]

\* Future.set_result / Future.set_exception on a pending future.
FutureSet(f, out, who) ==
    [f EXCEPT !.state = IF out.t = "value" THEN "resolved" ELSE "rejected",
              !.out = out, !.sets = f.sets + 1, !.by = who]

\* Faulty variant: no except branch: what self.result raises is dropped and the
\* future stays pending.
_set_future_swallow(fs, i, out, who) ==
    IF fs[i].state = "pending"
    THEN [futures |-> IF out.t = "value"
                      THEN [fs EXCEPT ![i] = FutureSet(fs[i], out, who)]
                      ELSE fs,
          raised |-> FALSE]
    ELSE [futures |-> fs, raised |-> TRUE]

\* _set_future(future), given what self.result produced: set_result with the
\* value, or set_exception with what was raised.  On a future that is no longer
\* pending both raise InvalidStateError, which leaves _set_future uncaught
\* (raised).
\* [futures, raised].
_set_future(fs, i, out, who) ==
    IF fs[i].state = "pending"
    THEN [futures |-> [fs EXCEPT ![i] = FutureSet(fs[i], out, who)],
          raised |-> FALSE]
    ELSE [futures |-> fs, raised |-> TRUE]

\* ---------------------------------------------------------------- listeners
OpSelf == "self"
CbSlot(i) == [t |-> "cb", i |-> i]
FutSlot(i) == [t |-> "fut", i |-> i]

\* emit has taken its list of slots: a slot connected now is not in it.
EmitTaken == pcP \in {"emitting", "returned", "raised"}

\* The keyword arguments emit hands to a slot, and what the slot finds when it
\* looks at the operation it was given.
Payload == [operation |-> OpSelf, result |-> _result, evt |-> _done_evt]

\* ---------------------------------------------------------------- Init
\* The _state_machine the subclass supplied: one whose is_finished() turns true
\* when the work ends (before _done is called, as a state machine's callback
\* calls it), or one that never reports finished.
SmKinds == {"tracking", "never"}

\* What a consumer's operation did: op, what is_done was when it looked (done),
\* what _result was when result looked at is_done (res0), the _result it read
\* last (src), what it got (out), the future or listener it made (fut, cb),
\* whether its wait had to block and whether the event was set when the wait
\* returned (blocked, evt).
NoOp == [op |-> "none", done |-> FALSE, res0 |-> None, src |-> None,
         out |-> NoOutcome, fut |-> 0, cb |-> 0, blocked |-> FALSE,
         evt |-> FALSE]

\* AuthlessHaystackSession: _authenticated, the cookies of its HTTP client
\* (whether the handler has assigned them, and what), and _auth_op, the
\* operation in progress to log in.
NewSession(op) ==
    [_authenticated |-> FALSE, cookies |-> [assigned |-> FALSE, ref |-> None],
     _auth_op |-> op]

\* No log-in is in progress.
NoSession == NewSession("")

\* BaseHaystackOperation.__init__, and the subclass storing _state_machine.
Init ==
    /\ smKind \in SmKinds
    /\ finished = FALSE
    /\ _result_copy \in BOOLEAN
    /\ _result_deepcopy \in BOOLEAN
    /\ _result = None
    /\ _done_evt = FALSE
    /\ slots = <<>>
    /\ heap = <<>>
    /\ pcP = "init"
    /\ doneCalls = 0
    /\ doneArg = None
    /\ emitQ = <<>>
    /\ fired = <<>>
    /\ cons = [c \in Consumers |-> [pc |-> "idle", cur |-> NoOp, last |-> NoOp]]
    /\ nOps = 0
    /\ futures = <<>>
    /\ listeners = <<>>
    /\ session = NoSession

\* ---------------------------------------------------------------- the worker
\* go(): the subclass starts the work.
go ==
    /\ pcP = "init"
    /\ pcP' = "running"
    /\ UNCHANGED <<smKind, finished, _result_copy, _result_deepcopy, _result,
                   _done_evt, slots, heap, doneCalls, doneArg, emitQ, fired, cons, nOps,
                   futures, listeners,
                   session>>

\* The work drives the state machine to a terminal state, then calls _done.
MarkFinished ==
    /\ pcP = "running"
    /\ smKind = "tracking"
    /\ ~finished
    /\ finished' = TRUE
    /\ UNCHANGED <<smKind, _result_copy, _result_deepcopy, _result, _done_evt,
                   slots, heap, pcP, doneCalls, doneArg, emitQ, fired, cons, nOps, futures,
                   listeners,
                   session>>

\* The objects a call _done(x) is given: [heap, ref].
NewResult(h, kind, failure) ==
    IF kind = "exc"
    THEN [heap |-> Append(h, AsynchronousException(failure)), ref |-> Len(h) + 1]
    ELSE IF kind = "obj"
    THEN [heap |-> h \o <<Obj("obj", 2, None, NoFailure),
                          Obj("obj", 1, Len(h) + 1, NoFailure)>>,
          ref |-> Len(h) + 2]
    ELSE [heap |-> Append(h, Obj(kind, 1, None, NoFailure)), ref |-> Len(h) + 1]

\* _done, first statement: self._result = result
StoreResult(kind, failure) ==
    LET n == NewResult(heap, kind, failure)
    IN  /\ heap' = n.heap
        /\ doneArg' = n.ref
        /\ _result' = n.ref
        /\ pcP' = "stored"
        /\ doneCalls' = doneCalls + 1
        /\ UNCHANGED <<smKind, finished, _result_copy, _result_deepcopy,
                       _done_evt, slots, emitQ, fired, cons, nOps, futures, listeners,
                   session>>

_done(kind, failure) ==
    /\ pcP = "running"
    /\ smKind = "tracking" => finished
    /\ doneCalls = 0
    /\ StoreResult(kind, failure)

\* Faulty variant: _done goes on to emit the signal with the event still unset.
_done_set_skipped ==
    /\ pcP = "stored"
    /\ pcP' = "set"
    /\ UNCHANGED <<smKind, finished, _result_copy, _result_deepcopy, _result,
                   _done_evt, slots, heap, doneCalls, doneArg, emitQ, fired,
                   cons, nOps, futures, listeners,
                   session>>

\* _done, second statement: self._done_evt.set()
_done_set ==
    /\ pcP = "stored"
    /\ _done_evt' = TRUE
    /\ pcP' = "set"
    /\ UNCHANGED <<smKind, finished, _result_copy, _result_deepcopy, _result,
                   slots, heap, doneCalls, doneArg, emitQ, fired, cons, nOps, futures,
                   listeners,
                   session>>

\* Faulty variant: emit stops after the first slot.
emit_first_only ==
    /\ pcP = "set"
    /\ emitQ' = IF slots = <<>> THEN <<>> ELSE <<Head(slots)>>
    /\ fired' = <<>>
    /\ pcP' = "emitting"
    /\ UNCHANGED <<smKind, finished, _result_copy, _result_deepcopy, _result,
                   _done_evt, slots, heap, doneCalls, doneArg, cons, nOps,
                   futures, listeners,
                   session>>

\* _done, third statement: self.done_sig.emit(operation=self).  emit takes the
\* list of slots under the signal's lock, then calls them outside it.
emit ==
    /\ pcP = "set"
    /\ emitQ' = slots
    /\ fired' = <<>>
    /\ pcP' = "emitting"
    /\ UNCHANGED <<smKind, finished, _result_copy, _result_deepcopy, _result,
                   _done_evt, slots, heap, doneCalls, doneArg, cons, nOps, futures, listeners,
                   session>>

\* emit calls a connected listener.
emit_listener ==
    /\ pcP = "emitting"
    /\ emitQ # <<>>
    /\ Head(emitQ).t = "cb"
    /\ listeners' = [listeners EXCEPT ![Head(emitQ).i].calls =
                                         Append(@, Payload)]
    /\ emitQ' = Tail(emitQ)
    /\ fired' = Append(fired, Head(emitQ))
    /\ UNCHANGED <<smKind, finished, _result_copy, _result_deepcopy, _result,
                   _done_evt, slots, heap, pcP, doneCalls, doneArg, cons, nOps, futures,
                   session>>

\* Faulty variant: _on_done resolves the future with the argument of _done
\* instead of reading self.result.
_on_done_with_argument ==
    /\ pcP = "emitting"
    /\ emitQ # <<>>
    /\ Head(emitQ).t = "fut"
    /\ LET s == _set_future(futures, Head(emitQ).i, Return(doneArg), Producer)
       IN  /\ futures' = s.futures
           /\ pcP' = IF s.raised THEN "raised" ELSE pcP
           /\ emitQ' = Tail(emitQ)
           /\ fired' = Append(fired, Head(emitQ))
    /\ UNCHANGED <<smKind, finished, _result_copy, _result_deepcopy, _result,
                   _done_evt, slots, heap, doneCalls, doneArg, cons, nOps,
                   listeners,
                   session>>

\* emit calls _on_done of a future: self._set_future(future), run here on the
\* thread that called _done.  An exception leaving the slot leaves emit and
\* _done.
_on_done ==
    /\ pcP = "emitting"
    /\ emitQ # <<>>
    /\ Head(emitQ).t = "fut"
    /\ LET r == result
           s == _set_future(futures, Head(emitQ).i, r.out, Producer)
       IN  /\ heap' = r.heap
           /\ futures' = s.futures
           /\ pcP' = IF s.raised THEN "raised" ELSE pcP
           /\ emitQ' = Tail(emitQ)
           /\ fired' = Append(fired, Head(emitQ))
    /\ UNCHANGED <<smKind, finished, _result_copy, _result_deepcopy, _result,
                   _done_evt, slots, doneCalls, doneArg, cons, nOps, listeners,
                   session>>

\* emit has called every slot of its list; _done returns.
_done_return ==
    /\ pcP = "emitting"
    /\ emitQ = <<>>
    /\ pcP' = "returned"
    /\ UNCHANGED <<smKind, finished, _result_copy, _result_deepcopy, _result,
                   _done_evt, slots, heap, doneCalls, doneArg, emitQ, fired, cons, nOps,
                   futures, listeners,
                   session>>

\* A collaborator that calls _done once more (nothing in _done refuses it).
_done_again(kind, failure) ==
    /\ pcP = "returned"
    /\ doneCalls < MaxDoneCalls
    /\ StoreResult(kind, failure)

\* ---------------------------------------------------------------- consumers
CanStart(c) == cons[c].pc = "idle" /\ nOps < MaxOps

\* The operation a consumer has in hand ends; what it did is kept in last.
Finish(c, rec) == [cons EXCEPT ![c] = [pc |-> "idle", cur |-> NoOp,
                                       last |-> rec]]

\* What the operation a consumer finished last did.
Last(c) == cons[c].last

\* wait(timeout): self._done_evt.wait(timeout) returns at once when the event
\* is set, and blocks the calling thread otherwise.
wait(c, timeout) ==
    /\ CanStart(c)
    /\ nOps' = nOps + 1
    /\ LET cur == [NoOp EXCEPT !.op = IF timeout THEN "waitT" ELSE "wait"]
       IN  cons' = IF _done_evt
                   THEN Finish(c, [cur EXCEPT !.evt = TRUE, !.src = _result])
                   ELSE [cons EXCEPT
                            ![c].pc = IF timeout THEN "waitT" ELSE "wait",
                            ![c].cur = [cur EXCEPT !.blocked = TRUE]]
    /\ UNCHANGED <<smKind, finished, _result_copy, _result_deepcopy, _result,
                   _done_evt, slots, heap, pcP, doneCalls, doneArg, emitQ, fired,
                   futures, listeners,
                   session>>

\* Faulty variant: the wait returns whether or not the event is set.
wait_return_early(c) ==
    /\ cons[c].pc \in {"wait", "waitT"}
    /\ UNCHANGED nOps
    /\ cons' = Finish(c, [cons[c].cur EXCEPT !.evt = _done_evt,
                                             !.src = _result])
    /\ UNCHANGED <<smKind, finished, _result_copy, _result_deepcopy, _result,
                   _done_evt, slots, heap, pcP, doneCalls, doneArg, emitQ,
                   fired, futures, listeners,
                   session>>

\* Event.wait returns once the event is set.
wait_return(c) ==
    /\ cons[c].pc \in {"wait", "waitT"}
    /\ UNCHANGED nOps
    /\ _done_evt
    /\ cons' = Finish(c, [cons[c].cur EXCEPT !.evt = _done_evt,
                                             !.src = _result])
    /\ UNCHANGED <<smKind, finished, _result_copy, _result_deepcopy, _result,
                   _done_evt, slots, heap, pcP, doneCalls, doneArg, emitQ, fired,
                   futures, listeners,
                   session>>

\* Faulty variant: a wait that times out gives the operation up: the slots
\* connected to the signal are dropped.
wait_timeout_cancels(c) ==
    /\ cons[c].pc = "waitT"
    /\ UNCHANGED nOps
    /\ ~_done_evt
    /\ cons' = Finish(c, [cons[c].cur EXCEPT !.evt = _done_evt,
                                             !.src = _result])
    /\ slots' = <<>>
    /\ UNCHANGED <<smKind, finished, _result_copy, _result_deepcopy, _result,
                   _done_evt, heap, pcP, doneCalls, doneArg, emitQ, fired,
                   futures, listeners,
                   session>>

\* Event.wait(timeout) returns when the timeout elapses with the event unset.
wait_timeout(c) ==
    /\ cons[c].pc = "waitT"
    /\ UNCHANGED nOps
    /\ ~_done_evt
    /\ cons' = Finish(c, [cons[c].cur EXCEPT !.evt = _done_evt,
                                             !.src = _result])
    /\ UNCHANGED <<smKind, finished, _result_copy, _result_deepcopy, _result,
                   _done_evt, slots, heap, pcP, doneCalls, doneArg, emitQ, fired,
                   futures, listeners,
                   session>>

\* What the thread evaluating self.result does with its outcome: the result
\* property hands it to the caller; _set_future (called by the future
\* property) sets the future with it, and the property returns the future.
Deliver(c, rec) ==
    /\ cons' = Finish(c, rec)
    /\ futures' = IF rec.op = "future"
                  THEN _set_future(futures, rec.fut, rec.out, c).futures
                  ELSE futures

\* Faulty variant: no is_done check: result goes on to look at _result.
ResultIsDone_unchecked(c, cur) ==
    /\ cons' = [cons EXCEPT ![c].pc = "r_failed",
                            ![c].cur = [cur EXCEPT !.done = is_done,
                                                   !.res0 = _result]]
    /\ UNCHANGED futures

\* result, first statement: if not self.is_done: raise NotReadyError()
ResultIsDone(c, cur) ==
    IF ~is_done
    THEN Deliver(c, [cur EXCEPT !.done = FALSE, !.res0 = _result,
                                !.src = _result,
                                !.out = Raise(NotReadyError)])
    ELSE /\ cons' = [cons EXCEPT ![c].pc = "r_failed",
                                 ![c].cur = [cur EXCEPT !.done = TRUE,
                                                        !.res0 = _result]]
         /\ UNCHANGED futures

\* A consumer reads the result property.
result_get(c) ==
    /\ CanStart(c)
    /\ nOps' = nOps + 1
    /\ ResultIsDone(c, [NoOp EXCEPT !.op = "result"])
    /\ UNCHANGED <<smKind, finished, _result_copy, _result_deepcopy, _result,
                   _done_evt, slots, heap, pcP, doneCalls, doneArg, emitQ, fired,
                   listeners,
                   session>>

\* result, second statement: if self.is_failed: self._result.reraise()
result_is_failed(c) ==
    /\ cons[c].pc = "r_failed"
    /\ UNCHANGED nOps
    /\ IF is_failed
       THEN Deliver(c, [cons[c].cur EXCEPT !.src = _result,
                                           !.out = reraise(heap, _result)])
       ELSE /\ cons' = [cons EXCEPT ![c].pc = "r_value"]
            /\ UNCHANGED futures
    /\ UNCHANGED <<smKind, finished, _result_copy, _result_deepcopy, _result,
                   _done_evt, slots, heap, pcP, doneCalls, doneArg, emitQ, fired,
                   listeners,
                   session>>

\* Faulty variant: result keeps the copy it made as the stored result.
result_return_caching(c) ==
    /\ cons[c].pc = "r_value"
    /\ UNCHANGED nOps
    /\ LET r == result_value
       IN  /\ heap' = r.heap
           /\ _result' = IF r.out.t = "value" THEN r.out.ref ELSE _result
           /\ Deliver(c, [cons[c].cur EXCEPT !.src = _result, !.out = r.out])
    /\ UNCHANGED <<smKind, finished, _result_copy, _result_deepcopy,
                   _done_evt, slots, pcP, doneCalls, doneArg, emitQ, fired,
                   listeners,
                   session>>

\* result, the return statements: self._result, copied as the flags say.
result_return(c) ==
    /\ cons[c].pc = "r_value"
    /\ UNCHANGED nOps
    /\ LET r == result_value
       IN  /\ heap' = r.heap
           /\ Deliver(c, [cons[c].cur EXCEPT !.src = _result, !.out = r.out])
    /\ UNCHANGED <<smKind, finished, _result_copy, _result_deepcopy, _result,
                   _done_evt, slots, pcP, doneCalls, doneArg, emitQ, fired, listeners,
                   session>>

\* Faulty variant: future always takes the connect branch.
future_always_connects(c) ==
    /\ CanStart(c)
    /\ nOps' = nOps + 1
    /\ futures' = Append(futures, NewFuture(is_done))
    /\ cons' = [cons EXCEPT ![c].pc = "f_connect",
                            ![c].cur = [NoOp EXCEPT !.op = "future",
                                                    !.done = is_done,
                                                    !.fut = Len(futures) + 1]]
    /\ UNCHANGED <<smKind, finished, _result_copy, _result_deepcopy, _result,
                   _done_evt, slots, heap, pcP, doneCalls, doneArg, emitQ,
                   fired, listeners,
                   session>>

\* future: future = Future(); if self.is_done: ... else: ...
future(c) ==
    /\ CanStart(c)
    /\ nOps' = nOps + 1
    /\ futures' = Append(futures, NewFuture(is_done))
    /\ cons' = [cons EXCEPT ![c].pc = IF is_done THEN "f_set" ELSE "f_connect",
                            ![c].cur = [NoOp EXCEPT !.op = "future",
                                                    !.done = is_done,
                                                    !.fut = Len(futures) + 1]]
    /\ UNCHANGED <<smKind, finished, _result_copy, _result_deepcopy, _result,
                   _done_evt, slots, heap, pcP, doneCalls, doneArg, emitQ, fired,
                   listeners,
                   session>>

\* future, done branch: self._set_future(future) begins to read self.result.
future_set(c) ==
    /\ cons[c].pc = "f_set"
    /\ UNCHANGED nOps
    /\ ResultIsDone(c, cons[c].cur)
    /\ UNCHANGED <<smKind, finished, _result_copy, _result_deepcopy, _result,
                   _done_evt, slots, heap, pcP, doneCalls, doneArg, emitQ, fired,
                   listeners,
                   session>>

\* future, other branch: self.done_sig.connect(_on_done); return future
future_connect(c) ==
    /\ cons[c].pc = "f_connect"
    /\ UNCHANGED nOps
    /\ slots' = Append(slots, FutSlot(cons[c].cur.fut))
    /\ futures' = [futures EXCEPT ![cons[c].cur.fut].early = ~EmitTaken]
    /\ cons' = Finish(c, cons[c].cur)
    /\ UNCHANGED <<smKind, finished, _result_copy, _result_deepcopy, _result,
                   _done_evt, heap, pcP, doneCalls, doneArg, emitQ, fired,
                   listeners,
                   session>>

\* A consumer connects a listener of its own: op.done_sig.connect(listener)
connect(c) ==
    /\ CanStart(c)
    /\ nOps' = nOps + 1
    /\ listeners' = Append(listeners, [owner |-> c, early |-> ~EmitTaken,
                                       calls |-> <<>>])
    /\ slots' = Append(slots, CbSlot(Len(listeners) + 1))
    /\ cons' = Finish(c, [NoOp EXCEPT !.op = "connect",
                                      !.cb = Len(listeners) + 1])
    /\ UNCHANGED <<smKind, finished, _result_copy, _result_deepcopy, _result,
                   _done_evt, heap, pcP, doneCalls, doneArg, emitQ, fired, futures,
                   session>>

\* ---------------------------------------------------------------- behaviours
DoneInputs == (ValueKinds \X {NoFailure}) \cup ({"exc"} \X Failures)

Worker ==
    \/ go
    \/ MarkFinished
    \/ \E v \in DoneInputs : _done(v[1], v[2])
    \/ _done_set
    \/ emit
    \/ emit_listener
    \/ _on_done
    \/ _done_return

Consumer(c) ==
    \/ \E timeout \in BOOLEAN : wait(c, timeout)
    \/ wait_return(c)
    \/ wait_timeout(c)
    \/ result_get(c)
    \/ result_is_failed(c)
    \/ result_return(c)
    \/ future(c)
    \/ future_set(c)
    \/ future_connect(c)
    \/ connect(c)

Next == Worker \/ \E c \in Consumers : Consumer(c)

\* The operation used as its contract says: _done is called once.
Spec == Init /\ [][Next]_vars

\* An operation constructed with the default arguments (copy, deep copy).
InitDefault == Init /\ _result_copy /\ _result_deepcopy

\* A thread inside _done goes on to its next statement, and a thread blocked in
\* Event.wait is woken once the event is set.
FairSpec ==
    /\ InitDefault
    /\ [][Next]_vars
    /\ WF_vars(_done_set)
    /\ \A c \in Consumers : WF_vars(wait_return(c))

\* The same with a collaborator that calls _done again.
NextRedone == Next \/ \E v \in DoneInputs : _done_again(v[1], v[2])

InitRedone == InitDefault /\ smKind = "tracking"

SpecRedone == InitRedone /\ [][NextRedone]_vars

\* A consumer assigns to an attribute of the object its last read of result
\* returned, or of the object nested in it (an int or str has none to assign
\* to).  The assignment is written as a change of sign of the object's data.
mutate(c, nested) ==
    /\ cons[c].pc = "idle"
    /\ Last(c).op = "result"
    /\ Last(c).out.t = "value"
    /\ Last(c).out.ref # None
    /\ heap[Last(c).out.ref].kind \in {"obj", "nocopy"}
    /\ LET ref == Last(c).out.ref
           target == IF nested THEN heap[ref].child ELSE ref
       IN  /\ target # None
           /\ heap[target].data > 0
           /\ heap' = [heap EXCEPT ![target].data = -@]
    /\ UNCHANGED <<smKind, finished, _result_copy, _result_deepcopy, _result,
                   _done_evt, slots, pcP, doneCalls, doneArg, emitQ, fired,
                   cons, nOps, futures, listeners,
                   session>>

\* The same with consumers that change the objects result handed them.
NextMutate == Next \/ \E c \in Consumers : \E nested \in BOOLEAN : mutate(c, nested)

InitMutate == Init /\ smKind = "tracking"

SpecMutate == InitMutate /\ [][NextMutate]_vars

\* ---------------------------------------------------------------- __repr__
ClassName == "HaystackOperation"

\* BaseHaystackOperation.state: self._state_machine.current
state == "mystate"

\* The three strings __repr__ builds, as the format chosen (t) and what is put
\* into it: the class name, and the stored result (ref) or the state.
ReprFailed == [t |-> "failed", ref |-> None, exc |-> <<ClassName, "">>]
ReprDone(r) == [t |-> "done", ref |-> r, exc |-> <<ClassName, "">>]
ReprState(st) == [t |-> "state", ref |-> None, exc |-> <<ClassName, st>>]

\* Faulty variant: __repr__ without its first branch.
repr_without_failed(c) ==
    /\ CanStart(c)
    /\ nOps' = nOps + 1
    /\ cons' = [cons EXCEPT ![c].pc = "p_done",
                            ![c].cur = [NoOp EXCEPT !.op = "repr",
                                                    !.res0 = _result]]
    /\ UNCHANGED <<smKind, finished, _result_copy, _result_deepcopy, _result,
                   _done_evt, slots, heap, pcP, doneCalls, doneArg, emitQ,
                   fired, futures, listeners,
                   session>>

\* __repr__, first branch: if self.is_failed: return "<%s failed>"
__repr__(c) ==
    /\ CanStart(c)
    /\ nOps' = nOps + 1
    /\ LET cur == [NoOp EXCEPT !.op = "repr", !.res0 = _result]
       IN  cons' = IF is_failed
                   THEN Finish(c, [cur EXCEPT !.src = _result,
                                              !.out = ReprFailed])
                   ELSE [cons EXCEPT ![c].pc = "p_done", ![c].cur = cur]
    /\ UNCHANGED <<smKind, finished, _result_copy, _result_deepcopy, _result,
                   _done_evt, slots, heap, pcP, doneCalls, doneArg, emitQ,
                   fired, futures, listeners,
                   session>>

\* __repr__, second test: elif self.is_done: ... else: return "<%s %s>" with
\* self.state
repr_is_done(c) ==
    /\ cons[c].pc = "p_done"
    /\ cons' = IF is_done
               THEN [cons EXCEPT ![c].pc = "p_result", ![c].cur.done = TRUE]
               ELSE Finish(c, [cons[c].cur EXCEPT !.src = _result,
                                                  !.out = ReprState(state)])
    /\ UNCHANGED <<smKind, finished, _result_copy, _result_deepcopy, _result,
                   _done_evt, slots, heap, pcP, doneCalls, doneArg, emitQ,
                   fired, nOps, futures, listeners,
                   session>>

\* __repr__, second branch: return "<%s done: %s>" with self._result
repr_result(c) ==
    /\ cons[c].pc = "p_result"
    /\ cons' = Finish(c, [cons[c].cur EXCEPT !.src = _result,
                                             !.out = ReprDone(_result)])
    /\ UNCHANGED <<smKind, finished, _result_copy, _result_deepcopy, _result,
                   _done_evt, slots, heap, pcP, doneCalls, doneArg, emitQ,
                   fired, nOps, futures, listeners,
                   session>>

\* The same with consumers that also ask for the representation.
NextRepr ==
    \/ Next
    \/ \E c \in Consumers : __repr__(c) \/ repr_is_done(c) \/ repr_result(c)

\* The operation as the representation's tests construct it (no copying).
InitRepr == Init /\ ~_result_copy /\ ~_result_deepcopy

SpecRepr == InitRepr /\ [][NextRepr]_vars

\* ---------------------------------------------------------------- the session
\* The slot of the session's _on_authenticate_done.
AuthSlot == [t |-> "auth", i |-> 0]

\* Faulty variant: the handler clears _auth_op in its try branch only.
OnAuthenticateDone_no_finally(s, out) ==
    IF out.t = "value"
    THEN [s EXCEPT !._authenticated = TRUE,
                   !.cookies = [assigned |-> TRUE, ref |-> out.ref],
                   !._auth_op = ""]
    ELSE [s EXCEPT !._authenticated = FALSE,
                   !.cookies = [assigned |-> TRUE, ref |-> None]]

\* The body of _on_authenticate_done, given what operation.result produced:
\* the try branch when it returned, the bare except branch when it raised, and
\* the finally branch in both.  (_auth_op = None is written "".)
OnAuthenticateDone(s, out) ==
    IF out.t = "value"
    THEN [s EXCEPT !._authenticated = TRUE,
                   !.cookies = [assigned |-> TRUE, ref |-> out.ref],
                   !._auth_op = ""]
    ELSE [s EXCEPT !._authenticated = FALSE,
                   !.cookies = [assigned |-> TRUE, ref |-> None],
                   !._auth_op = ""]

\* emit calls the session's slot: _on_authenticate_done(operation=self), run
\* on the thread that called _done.  Nothing leaves the handler.
_on_authenticate_done ==
    /\ pcP = "emitting"
    /\ emitQ # <<>>
    /\ Head(emitQ).t = "auth"
    /\ LET r == result
       IN  /\ heap' = r.heap
           /\ session' = OnAuthenticateDone(session, r.out)
    /\ emitQ' = Tail(emitQ)
    /\ fired' = Append(fired, Head(emitQ))
    /\ UNCHANGED <<smKind, finished, _result_copy, _result_deepcopy, _result,
                   _done_evt, slots, pcP, doneCalls, doneArg, cons, nOps,
                   futures, listeners>>

\* The operation is one a session started to log in: the session keeps it in
\* _auth_op and has connected _on_authenticate_done to its done_sig.
InitAuth ==
    /\ smKind \in SmKinds
    /\ finished = FALSE
    /\ _result_copy \in BOOLEAN
    /\ _result_deepcopy \in BOOLEAN
    /\ _result = None
    /\ _done_evt = FALSE
    /\ slots = <<AuthSlot>>
    /\ heap = <<>>
    /\ pcP = "init"
    /\ doneCalls = 0
    /\ doneArg = None
    /\ emitQ = <<>>
    /\ fired = <<>>
    /\ cons = [c \in Consumers |-> [pc |-> "idle", cur |-> NoOp, last |-> NoOp]]
    /\ nOps = 0
    /\ futures = <<>>
    /\ listeners = <<>>
    /\ session = NewSession(OpSelf)

NextAuth == Next \/ _on_authenticate_done

SpecAuth == InitAuth /\ [][NextAuth]_vars

\* ---------------------------------------------------------------- properties
Range(q) == {q[i] : i \in DOMAIN q}

\* A finished read of the result property by a consumer.
IsRead(l) == l.op = "result" /\ l.out.t # "none"

\* ref is the very object src.
SameObject(ref, src) == ref = src

\* ref is another object than src with src's content, holding the same nested
\* object as src.
ShallowCopyOf(ref, src) ==
    /\ ref # src
    /\ heap[ref].kind = heap[src].kind
    /\ heap[ref].data = heap[src].data
    /\ heap[ref].child = heap[src].child

\* ref is another object than src with src's content, holding a nested object
\* of its own with the content of src's.
DeepCopyOf(ref, src) ==
    /\ ref # src
    /\ heap[ref].kind = heap[src].kind
    /\ heap[ref].data = heap[src].data
    /\ heap[ref].child # heap[src].child
    /\ heap[ref].child # None
    /\ heap[heap[ref].child].kind = heap[heap[src].child].kind
    /\ heap[heap[ref].child].data = heap[heap[src].child].data

\* C1: a read of result that finds is_done false raises NotReadyError,
\* whatever _result holds: it returns nothing and re-raises no stored failure.
C1_NotReadyBeforeDone ==
    \A c \in Consumers :
        (IsRead(Last(c)) /\ ~Last(c).done) => Last(c).out = Raise(NotReadyError)

\* C1 witness: a read met is_done false while _result held a captured failure.
C1_Witness ==
    \E c \in Consumers :
        /\ IsRead(Last(c))
        /\ ~Last(c).done
        /\ IsExc(heap, Last(c).res0)
        /\ Last(c).out = Raise(NotReadyError)

\* C2: with a worker that marks the state machine finished and then calls
\* _done(v), a consumer that saw is_done true and got a value from result never
\* got the initial None.
C2_DoneImpliesResultStored ==
    \A c \in Consumers :
        (/\ smKind = "tracking"
         /\ IsRead(Last(c))
         /\ Last(c).done
         /\ Last(c).out.t = "value") => Last(c).out.ref # None

\* A step that is the first statement of a further call of _done.
DoneCalledAgain == pcP = "returned" /\ pcP' = "stored"

\* C3 as claimed: _result is None until _done is called, and once the done
\* event is set neither the event nor _result changes again, whatever is done
\* next (a further call of _done included).
C3_WriteOnce ==
    /\ [](doneCalls = 0 => _result = None)
    /\ [][_done_evt => (_done_evt' /\ _result' = _result)]_vars

\* C3 as amended: _result is None until _done is called; once the done event is
\* set it stays set, and _result is changed by nothing but a further call of
\* _done.
C3_WriteOnceUnlessDoneAgain ==
    /\ [](doneCalls = 0 => _result = None)
    /\ [][_done_evt => (/\ _done_evt'
                        /\ ~DoneCalledAgain => _result' = _result)]_vars

\* C3 witness: the operation was completed, consumers read it and waited on it,
\* and _done was called again.
C3_Witness ==
    /\ doneCalls = MaxDoneCalls
    /\ _done_evt
    /\ \E c \in Consumers : IsRead(Last(c)) /\ Last(c).out.t = "value"
                            /\ Last(c).src # None /\ Last(c).src # _result

\* A finished read that returned the stored value of a successful completion.
SuccessfulRead(l) ==
    IsRead(l) /\ l.out.t = "value" /\ l.src # None /\ ~IsExc(heap, l.src)

\* C4 as claimed: result returns the stored reference with result_copy=False, a
\* shallow copy that is a distinct reference with result_copy=True and
\* result_deepcopy=False, a deep copy that is a distinct reference with both
\* True.
C4_AliasingModes ==
    \A c \in Consumers :
        LET l == Last(c) IN
        SuccessfulRead(l) =>
            /\ ~_result_copy => SameObject(l.out.ref, l.src)
            /\ (_result_copy /\ ~_result_deepcopy) =>
                   ShallowCopyOf(l.out.ref, l.src)
            /\ (_result_copy /\ _result_deepcopy) =>
                   DeepCopyOf(l.out.ref, l.src)

\* C4 as amended: the same for a stored mutable object; for a stored immutable
\* atomic value copy and deepcopy hand back the stored reference itself, so
\* result returns the identical reference in every mode.  A read of a completed
\* successful operation returns (rather than raises) unless a copy is asked of
\* a value whose type supports none.
C4_AliasingModesOfMutable ==
    \A c \in Consumers :
        LET l == Last(c) IN
        /\ SuccessfulRead(l) =>
            /\ ~_result_copy => SameObject(l.out.ref, l.src)
            /\ (_result_copy /\ heap[l.src].kind = "atom") =>
                   SameObject(l.out.ref, l.src)
            /\ (_result_copy /\ ~_result_deepcopy /\ heap[l.src].kind = "obj") =>
                   ShallowCopyOf(l.out.ref, l.src)
            /\ (_result_copy /\ _result_deepcopy /\ heap[l.src].kind = "obj") =>
                   DeepCopyOf(l.out.ref, l.src)
        /\ (/\ IsRead(l) /\ l.done
            /\ l.res0 # None /\ ~IsExc(heap, l.res0)
            /\ (~_result_copy \/ heap[l.res0].kind # "nocopy")) =>
                   (l.out.t = "value" /\ l.src = l.res0)

\* C4 witness: a shallow-copying operation returned a copy of a stored mutable
\* object.
C4_Witness ==
    \E c \in Consumers :
        /\ SuccessfulRead(Last(c))
        /\ _result_copy /\ ~_result_deepcopy
        /\ heap[Last(c).src].kind = "obj"
        /\ Last(c).out.ref # Last(c).src

\* C5: a read of result begun when a captured failure was stored on a done
\* operation raises that failure's kind and message and returns nothing; this
\* holds of every read, so the failure is not used up by one.
C5_FailureReraised ==
    \A c \in Consumers :
        LET l == Last(c) IN
        (IsRead(l) /\ l.done /\ IsExc(heap, l.res0)) =>
            (l.out = Raise(heap[l.res0].failure) /\ _result = l.res0)

\* C5 witness: two reads of the same failed operation both raised its failure.
C5_Witness ==
    /\ IsExc(heap, _result)
    /\ \A c \in Consumers :
           /\ IsRead(Last(c)) /\ Last(c).done /\ Last(c).res0 = _result
           /\ Last(c).out = Raise(heap[_result].failure)

\* C6: when the operation has completed with a captured failure, every future
\* of it that is no longer pending is rejected with that failure's kind and
\* message (what result raises), none is resolved with a value.
C6_FailedFutureRejected ==
    \A i \in DOMAIN futures :
        (/\ smKind = "tracking"
         /\ pcP = "returned"
         /\ IsExc(heap, _result)
         /\ futures[i].state # "pending") =>
            /\ futures[i].state = "rejected"
            /\ futures[i].out = Raise(heap[_result].failure)

\* C7: a wait() without timeout returns only when _done has been called (and
\* has set the event), and a thread blocked in wait() once _done has been
\* called eventually returns.
C7_WaitUntilDone ==
    /\ [](\A c \in Consumers :
            Last(c).op = "wait" => (doneCalls >= 1 /\ Last(c).evt))
    /\ \A c \in Consumers :
            (cons[c].pc = "wait" /\ doneCalls >= 1) ~> (cons[c].pc # "wait")

\* C7 witness: a wait() that had to block (it began before _done set the event)
\* has returned.
C7_Witness ==
    \E c \in Consumers :
        Last(c).op = "wait" /\ Last(c).blocked /\ Last(c).evt

\* C8: before _done is called _result is None, the event is unset and no
\* listener has been called; when the one call _done(r) has returned, _result is
\* r, the event is set, and every listener connected to the signal (before emit
\* took its list) has been called exactly once, with the operation itself as
\* operation.
C8_DoneStoresSetsEmits ==
    /\ pcP \in {"init", "running"} =>
           /\ _result = None
           /\ ~_done_evt
           /\ \A i \in DOMAIN listeners : listeners[i].calls = <<>>
    /\ pcP = "returned" =>
           /\ doneArg # None
           /\ _result = doneArg
           /\ _done_evt
           /\ \A i \in DOMAIN listeners :
                  listeners[i].early =>
                      /\ Len(listeners[i].calls) = 1
                      /\ listeners[i].calls[1].operation = OpSelf
                      /\ listeners[i].calls[1].result = doneArg
                      /\ listeners[i].calls[1].evt

\* C8 witness: _done has returned with two listeners connected before it.
C8_Witness ==
    /\ pcP = "returned"
    /\ Len(listeners) = 2
    /\ \A i \in DOMAIN listeners :
           listeners[i].early /\ Len(listeners[i].calls) = 1

\* What one read of result may produce, by the rules of the property: l is the
\* record of the read.
FollowsResult(l) ==
    /\ ~l.done => l.out = Raise(NotReadyError)
    /\ (l.done /\ IsExc(heap, l.res0)) => l.out = Raise(heap[l.res0].failure)
    /\ (l.out.t = "value" /\ ~_result_copy) => SameObject(l.out.ref, l.src)
    /\ (l.out.t = "value" /\ _result_copy /\ l.src # None) =>
           IF heap[l.src].kind = "atom" THEN SameObject(l.out.ref, l.src)
           ELSE IF _result_deepcopy /\ heap[l.src].kind = "obj"
                THEN DeepCopyOf(l.out.ref, l.src)
                ELSE ShallowCopyOf(l.out.ref, l.src)
    /\ (l.done /\ l.out.t = "raise") =>
           \/ IsExc(heap, l.src) /\ l.out.exc = heap[l.src].failure
           \/ /\ _result_copy /\ l.src # None /\ heap[l.src].kind = "nocopy"
              /\ l.out.exc = CopyError

\* C9: when the future property found is_done true, the future it returns is
\* already resolved or rejected, by the calling thread, with the outcome of a
\* read of result (the value as the aliasing mode says, or the failure raised),
\* and no slot was connected to the signal for it.
C9_FutureOfDoneOperation ==
    \A c \in Consumers :
        LET l == Last(c) IN
        (l.op = "future" /\ l.done) =>
            /\ futures[l.fut].state # "pending"
            /\ futures[l.fut].sets = 1
            /\ futures[l.fut].by = c
            /\ futures[l.fut].out = l.out
            /\ (futures[l.fut].state = "resolved") = (l.out.t = "value")
            /\ FollowsResult(l)
            /\ FutSlot(l.fut) \notin Range(slots)

\* C9 witness: a future taken after _done returned was rejected, before the
\* property returned, with the stored failure.
C9_Witness ==
    \E c \in Consumers :
        /\ Last(c).op = "future" /\ Last(c).done
        /\ pcP = "returned"
        /\ IsExc(heap, _result)
        /\ futures[Last(c).fut].state = "rejected"
        /\ futures[Last(c).fut].out = Raise(heap[_result].failure)

\* What result produces for the worker at the moment the signal fires: out is
\* what a future was set with.
IsFiringOutcome(out) ==
    IF ~finished THEN out = Raise(NotReadyError)
    ELSE IF IsExc(heap, _result) THEN out = Raise(heap[_result].failure)
    ELSE IF ~_result_copy THEN out = Return(_result)
    ELSE IF heap[_result].kind = "nocopy" THEN out = Raise(CopyError)
    ELSE IF heap[_result].kind = "atom" THEN out = Return(_result)
    ELSE /\ out.t = "value"
         /\ IF _result_deepcopy THEN DeepCopyOf(out.ref, _result)
            ELSE ShallowCopyOf(out.ref, _result)

C11_ListenerInvokedOnce ==
    /\ [](\A i \in DOMAIN listeners :
            /\ Len(listeners[i].calls) <= 1
            /\ listeners[i].calls # <<>> => EmitTaken
            /\ (listeners[i].early /\ pcP = "returned") =>
                   Len(listeners[i].calls) = 1)
    /\ [][(pcP = "returned" /\ Len(listeners') > Len(listeners)) =>
              Len(listeners'[Len(listeners')].calls) = 1]_vars

\* C12: no listener is called twice, and once the firing is over (_done has
\* returned and every connect has returned) every listener consumers connected
\* has been called exactly once, wherever its connect fell relative to the
\* firing.
C12_EveryListenerNotifiedOnce ==
    \A i \in DOMAIN listeners :
        /\ Len(listeners[i].calls) <= 1
        /\ pcP = "returned" => Len(listeners[i].calls) = 1

\* C13: a future that was pending when the signal fired is never set by the
\* thread that called _done: it is set on the thread of the consumer that took
\* it.
C13_FutureSetOnConsumerContext ==
    \A i \in DOMAIN futures :
        (~futures[i].done /\ futures[i].state # "pending") =>
            futures[i].by \in Consumers

\* C14: with a worker that marks the state machine finished and then calls
\* _done, in every state is_done is true exactly when the done event is set.
C14_DoneAgreesWithEvent ==
    smKind = "tracking" => (is_done <=> _done_evt)

\* Every consumer is between operations: each future property read so far has
\* returned.
AllIdle == \A c \in Consumers : cons[c].pc = "idle"

\* C15: the futures taken from one operation are separate instances, none is
\* set twice, and once the operation has completed (the worker marked the state
\* machine finished and _done has returned) each future the property has
\* returned, whether taken before or after completion, has been set exactly
\* once, with the operation's outcome.
C15_EachFutureSetOnce ==
    /\ \A c, d \in Consumers :
           (c # d /\ Last(c).op = "future" /\ Last(d).op = "future") =>
               Last(c).fut # Last(d).fut
    /\ \A i \in DOMAIN futures :
           /\ futures[i].sets <= 1
           /\ (smKind = "tracking" /\ pcP = "returned" /\ AllIdle) =>
                  /\ futures[i].sets = 1
                  /\ IsFiringOutcome(futures[i].out)

\* A step in which consumer c's wait(timeout) returns with the event unset.
TimedOut(c) ==
    cons[c].pc = "waitT" /\ cons'[c].pc = "idle" /\ ~cons'[c].last.evt

\* C16: a wait(timeout) that returns by its timeout changes nothing of the
\* operation (_result, which is still None if _done was not called, the unset
\* event, the slots, the futures, the worker's progress); and whatever waits
\* timed out, when _done(r) has returned _result is r and the event is set, and
\* a wait that returns with the event set finds r stored.
C16_TimeoutLeavesOperation ==
    /\ [][\A c \in Consumers :
            TimedOut(c) =>
                /\ UNCHANGED <<smKind, finished, _result_copy, _result_deepcopy,
                               _result, _done_evt, slots, heap, pcP, doneCalls,
                               doneArg, emitQ, fired, futures, listeners,
                   session>>
                /\ ~_done_evt'
                /\ doneCalls = 0 => _result' = None]_vars
    /\ [](pcP = "returned" =>
              (doneArg # None /\ _result = doneArg /\ _done_evt))
    /\ [](\A c \in Consumers :
              (Last(c).op \in {"wait", "waitT"} /\ Last(c).evt) =>
                  (Last(c).src # None /\ Last(c).src = doneArg))

\* C16 witness: one consumer's wait(timeout) timed out, _done has returned since
\* and another consumer's wait returned with the result stored.
C16_Witness ==
    /\ pcP = "returned"
    /\ \E c, d \in Consumers :
           /\ Last(c).op = "waitT" /\ Last(c).blocked /\ ~Last(c).evt
           /\ Last(c).src = None
           /\ Last(d).op = "wait" /\ Last(d).evt /\ Last(d).src = _result
           /\ _result # None

\* The object r and the object nested in it are as _done was given them: no
\* consumer's assignment has reached them.
Pristine(r) ==
    r # None =>
        /\ heap[r].data >= 0
        /\ heap[r].child # None => heap[heap[r].child].data >= 0

\* C17 as claimed: with result_copy=False every read returns the stored object
\* itself (so it shows what a consumer changed in it); in every other mode no
\* change a consumer makes to what it was returned reaches the stored result.
C17_MutationOnlyInOriginal ==
    /\ \A c \in Consumers :
           (SuccessfulRead(Last(c)) /\ ~_result_copy) =>
               SameObject(Last(c).out.ref, _result)
    /\ _result_copy => Pristine(_result)

\* C17 as amended: with result_copy=False every read returns the stored object
\* itself; with deep copies no change a consumer makes reaches the stored
\* result or the object nested in it; with shallow copies the stored object
\* itself is out of reach, the object nested in it (shared with the copies) is
\* not.
C17_MutationReachesShared ==
    /\ \A c \in Consumers :
           (SuccessfulRead(Last(c)) /\ ~_result_copy) =>
               SameObject(Last(c).out.ref, _result)
    /\ (_result_copy /\ _result_deepcopy) => Pristine(_result)
    /\ (_result_copy /\ ~_result_deepcopy /\ _result # None) =>
           heap[_result].data >= 0

\* C17 witness: in deep-copy mode a consumer changed the copy it was returned and
\* the object nested in it, and a read by the other consumer returned a copy of
\* the unchanged stored result.
C17_Witness ==
    /\ _result_copy /\ _result_deepcopy
    /\ \E c, d \in Consumers :
           /\ SuccessfulRead(Last(c)) /\ SuccessfulRead(Last(d))
           /\ heap[Last(c).out.ref].data < 0
           /\ heap[heap[Last(c).out.ref].child].data < 0
           /\ Last(d).out.ref # Last(c).out.ref
           /\ Pristine(Last(d).out.ref)
           /\ Pristine(_result)

\* C18: is_failed is false on a new operation and as long as _done has not been
\* called; once _done has been called it is true exactly when _done was given a
\* captured failure: false after a successful completion, true after a failed
\* one.
C18_IsFailedIffFailureStored ==
    /\ doneCalls = 0 => ~is_failed
    /\ doneCalls >= 1 => (is_failed <=> heap[doneArg].kind = "exc")

\* C18 witness: _done was called with a captured failure and has returned, and
\* is_failed is true.
C18_Witness ==
    /\ pcP = "returned"
    /\ heap[doneArg].kind = "exc"
    /\ is_failed

\* C19: whenever the event is set the argument of _done is stored; whenever the
\* signal is being or has been emitted the event is set; a listener is called
\* with the result stored and the event set (a wait() inside it returns at
\* once); when _done has returned emit has called every slot of its list and no
\* listener is called afterwards; a thread released from wait finds the new
\* _result.
C19_StoreThenSetThenEmit ==
    /\ [](_done_evt => (doneArg # None /\ _result = doneArg))
    /\ [](EmitTaken => _done_evt)
    /\ [](\A i \in DOMAIN listeners :
            \A k \in DOMAIN listeners[i].calls :
                /\ listeners[i].calls[k].result = doneArg
                /\ listeners[i].calls[k].evt)
    /\ [](pcP = "returned" => emitQ = <<>>)
    /\ [][pcP = "returned" =>
              \A i \in DOMAIN listeners :
                  listeners'[i].calls = listeners[i].calls]_vars
    /\ [](\A c \in Consumers :
            (Last(c).op \in {"wait", "waitT"} /\ Last(c).blocked
             /\ Last(c).evt) => Last(c).src = doneArg)

\* C19 witness: _done has returned; a listener was called with the result stored
\* and the event set, and a thread that was blocked in wait was released and
\* found the result.
C19_Witness ==
    /\ pcP = "returned"
    /\ \E i \in DOMAIN listeners :
           /\ Len(listeners[i].calls) = 1
           /\ listeners[i].calls[1].result = _result
           /\ listeners[i].calls[1].evt
    /\ \E c \in Consumers :
           /\ Last(c).op = "wait" /\ Last(c).blocked /\ Last(c).evt
           /\ Last(c).src = _result

\* C20: with a worker that marks the state machine finished and then calls
\* _done, no future the property has returned is still pending once _done has
\* returned (nothing sets a future after that).
C20_NoFutureLeftPending ==
    (smKind = "tracking" /\ pcP = "returned" /\ AllIdle) =>
        \A i \in DOMAIN futures : futures[i].state # "pending"

\* C21: a future that has been set is resolved exactly when the read of result
\* made for it returned a value (and then holds that value) and rejected
\* exactly when the read raised (and then holds what was raised); one set by
\* the future property holds the outcome of the property's own read; one set by
\* the firing while the state machine does not report finished is rejected with
\* NotReadyError, whatever _done was given.
C21_FutureMirrorsResultRead ==
    /\ \A i \in DOMAIN futures :
           LET f == futures[i] IN
           /\ f.state = "pending" <=> f.out.t = "none"
           /\ f.state = "resolved" <=> f.out.t = "value"
           /\ f.state = "rejected" <=> f.out.t = "raise"
           /\ (f.by = Producer /\ ~is_done) =>
                  (f.state = "rejected" /\ f.out = Raise(NotReadyError))
           /\ (f.by = Producer /\ is_done) => IsFiringOutcome(f.out)
    /\ \A c \in Consumers :
           (Last(c).op = "future" /\ futures[Last(c).fut].by = c) =>
               /\ futures[Last(c).fut].out = Last(c).out
               /\ FollowsResult(Last(c))

\* C21 witness: the signal fired while the state machine did not report
\* finished, and a pending future was rejected with NotReadyError although
\* _done was given a value.
C21_Witness ==
    /\ pcP = "returned"
    /\ ~is_done
    /\ doneArg # None /\ ~IsExc(heap, doneArg)
    /\ \E i \in DOMAIN futures :
           /\ ~futures[i].done
           /\ futures[i].by = Producer
           /\ futures[i].state = "rejected"
           /\ futures[i].out = Raise(NotReadyError)

\* The objects of the heap whose type supports neither copy nor deepcopy.
Uncopyable == {r \in DOMAIN heap : heap[r].kind = "nocopy"}

\* C22: _done stores the very object it was given and returns, also when the
\* object cannot be copied (no copy of it is ever made); a read of result that
\* gets to such a stored object raises the copy error in both copying modes, on
\* every read, and returns the object itself when result_copy is False.
C22_CopyErrorOnlyOnRead ==
    /\ doneCalls >= 1 => (doneArg # None /\ _result = doneArg)
    /\ pcP # "raised"
    /\ Cardinality(Uncopyable) <= 1
    /\ \A c \in Consumers :
           LET l == Last(c) IN
           (IsRead(l) /\ l.done /\ l.src \in Uncopyable) =>
               IF _result_copy THEN l.out = Raise(CopyError)
               ELSE l.out = Return(l.src)

\* C22 witness: _done has returned having stored an object that cannot be
\* copied, and two reads in a copying mode both raised the copy error.
C22_Witness ==
    /\ pcP = "returned"
    /\ _result \in Uncopyable
    /\ _result_copy
    /\ \A c \in Consumers :
           /\ IsRead(Last(c)) /\ Last(c).done /\ Last(c).src = _result
           /\ Last(c).out = Raise(CopyError)

\* A finished call of __repr__ by a consumer.
IsRepr(l) == l.op = "repr" /\ l.out.t # "none"

\* C23: __repr__ gives one of three strings, decided in this order: the failed
\* one when it found is_failed true (whatever is_done is), otherwise the done
\* one showing the stored result when it found is_done true, otherwise the one
\* showing the state machine's current state.
C23_ReprThreeCases ==
    \A c \in Consumers :
        LET l == Last(c) IN
        IsRepr(l) =>
            /\ l.out.t \in {"failed", "done", "state"}
            /\ IsExc(heap, l.res0) => l.out = ReprFailed
            /\ (~IsExc(heap, l.res0) /\ l.done) => l.out = ReprDone(l.src)
            /\ (~IsExc(heap, l.res0) /\ ~l.done) => l.out = ReprState(state)

\* C23 witness: with a captured failure stored and a state machine that does
\* not report finished, __repr__ gave the failed string.
C23_Witness ==
    /\ ~is_done
    /\ \E c \in Consumers :
           /\ IsRepr(Last(c))
           /\ IsExc(heap, Last(c).res0)
           /\ Last(c).out = ReprFailed

\* The handler has run: emit has called the session's slot.
AuthHandled == AuthSlot \in Range(fired)

\* What operation.result does for the thread in _done: it raises when the state
\* machine does not report finished, when a captured failure is stored, and
\* when a copy is asked of a value that supports none.
ResultRaises ==
    \/ ~is_done
    \/ IsExc(heap, _result)
    \/ _result_copy /\ _result # None /\ heap[_result].kind = "nocopy"

\* C24: until the handler runs the session is as it was made; once it has run
\* _auth_op is cleared whatever result produced; when result raised (not ready,
\* captured failure, copy error) _authenticated is False and the cookies are
\* None; otherwise _authenticated is True and the cookies are what result
\* returned (the stored value as the aliasing mode says); nothing leaves the
\* handler: emit goes on and _done returns.
C24_AuthenticateDone ==
    /\ ~AuthHandled => session = NewSession(OpSelf)
    /\ AuthHandled =>
           /\ session._auth_op = ""
           /\ session.cookies.assigned
           /\ IF ResultRaises
              THEN ~session._authenticated /\ session.cookies.ref = None
              ELSE /\ session._authenticated
                   /\ IsFiringOutcome(Return(session.cookies.ref))
    /\ pcP # "raised"
    /\ pcP = "returned" => AuthHandled

\* C24 witness: the operation ended with a captured failure, the handler ran,
\* left the session logged out with no cookies and _auth_op cleared, and _done
\* has returned.
C24_Witness ==
    /\ pcP = "returned"
    /\ AuthHandled
    /\ is_done /\ IsExc(heap, _result)
    /\ ~session._authenticated
    /\ session.cookies = [assigned |-> TRUE, ref |-> None]
    /\ session._auth_op = ""

====
